---- MODULE Spec2Model ----
(***************************************************************************)
(* Model of app.py: a Flask application with one explicit route, "/",      *)
(* rendering index.html, and a __main__ block that resolves PORT and       *)
(* FLASK_DEBUG from the environment and calls app.run on 0.0.0.0.          *)
(*                                                                         *)
(* Strings the code inspects character by character (the values of the     *)
(* environment variables) are sequences of one-character strings, so that  *)
(* int() and str.lower() are computed, not assumed.  URL paths are         *)
(* sequences of segments: "/" is <<>>, "/static/app.js" is                 *)
(* <<"static", "app.js">>.                                                 *)
(*                                                                         *)
(* What the module's calls do in the framework is modelled at the level    *)
(* the claims need: Flask(__name__) registers the default static route,    *)
(* the URL map dispatches on path and method, render_template goes through *)
(* the Jinja environment's template cache (auto_reload = app.debug), an    *)
(* unhandled exception in a view is a 500, and app.run makes one bind.     *)
(* Only ASCII is modelled in int() and lower().                            *)
(***************************************************************************)
EXTENDS Integers, Sequences, FiniteSets, TLC

VARIABLES
    env,          \* os.environ: name -> [set, val]
    portsInUse,   \* ports other processes hold (the platform)
    tmpl,         \* templates/index.html on disk: [state, ver]
    pc,           \* position of the process in app.py
    module_name,  \* __name__
    url_map,      \* app.url_map: set of [rule, endpoint, methods]
    envReads,     \* the environment variables app.py has read
    port,         \* <<>> before line 14 has assigned it, then <<n>>
    debug,        \* <<>> before line 15 has assigned it, then <<b>>
    app_debug,    \* app.debug
    bindAttempts, \* the (host, port) pairs app.run tried to bind, in order
    sock,         \* <<>> or <<[host, port]>>: the listening socket
    cache,        \* the Jinja environment's cache: <<>> or <<ver>>
    resp,         \* the last response, with the request and what it saw
    seen500       \* a 500 has been served since the server started

vars == << env, portsInUse, tmpl, pc, module_name, url_map, envReads, port,
           debug, app_debug, bindAttempts, sock, cache, resp, seen500 >>

\* ---------------------------------------------------------------- bounds

\* Number of distinct contents index.html takes on disk.
MaxVer == 2

\* ---------------------------------------------------------------- strings

DigitChars == << "0", "1", "2", "3", "4", "5", "6", "7", "8", "9" >>

UpperChars == << "A", "B", "C", "D", "E", "F", "G", "H", "I", "J", "K", "L", "M",
                 "N", "O", "P", "Q", "R", "S", "T", "U", "V", "W", "X", "Y", "Z" >>

LowerChars == << "a", "b", "c", "d", "e", "f", "g", "h", "i", "j", "k", "l", "m",
                 "n", "o", "p", "q", "r", "s", "t", "u", "v", "w", "x", "y", "z" >>

Whitespace == { " ", "\t" }

IsDigit(c) == \E i \in 1..10 : DigitChars[i] = c

DigitVal(c) == (CHOOSE i \in 1..10 : DigitChars[i] = c) - 1

\* str.lower() on one character.
lower_char(c) ==
    IF \E i \in 1..26 : UpperChars[i] = c
    THEN LowerChars[CHOOSE i \in 1..26 : UpperChars[i] = c]
    ELSE c

\* lower left out: the comparison made case-sensitive.
lower_identity(s) == s

\* str.lower()
lower(s) == [ i \in 1..Len(s) |-> lower_char(s[i]) ]

RECURSIVE lstrip(_)
lstrip(s) ==
    IF s # << >> /\ Head(s) \in Whitespace THEN lstrip(Tail(s)) ELSE s

RECURSIVE rstrip(_)
rstrip(s) ==
    IF s # << >> /\ s[Len(s)] \in Whitespace
    THEN rstrip(SubSeq(s, 1, Len(s) - 1))
    ELSE s

strip(s) == rstrip(lstrip(s))

\* The digits of a literal: digits, single underscores between digits.
IsDigitGroup(s) ==
    /\ s # << >>
    /\ IsDigit(s[1])
    /\ IsDigit(s[Len(s)])
    /\ \A i \in 1..Len(s) : IsDigit(s[i]) \/ s[i] = "_"
    /\ \A i \in 1..(Len(s) - 1) : ~(s[i] = "_" /\ s[i + 1] = "_")

RECURSIVE DigitGroupVal(_, _)
DigitGroupVal(s, acc) ==
    IF s = << >> THEN acc
    ELSE IF Head(s) = "_" THEN DigitGroupVal(Tail(s), acc)
    ELSE DigitGroupVal(Tail(s), 10 * acc + DigitVal(Head(s)))

\* int(s) for a str s, base 10: surrounding whitespace, an optional sign,
\* then the digits.  ok = FALSE is ValueError.
int_str(s) ==
    LET t == strip(s)
        signed == t # << >> /\ Head(t) \in { "+", "-" }
        body == IF signed THEN Tail(t) ELSE t
    IN  IF IsDigitGroup(body)
        THEN [ ok |-> TRUE,
               val |-> IF signed /\ Head(t) = "-"
                       THEN 0 - DigitGroupVal(body, 0)
                       ELSE DigitGroupVal(body, 0) ]
        ELSE [ ok |-> FALSE, val |-> 0 ]

\* int(x): x is what os.environ.get returned, a str or the int default.
int(x) ==
    IF x.tag = "int" THEN [ ok |-> TRUE, val |-> x.v ] ELSE int_str(x.v)

\* Literals of the source.
str_true == << "t", "r", "u", "e" >>

str_false == << "f", "a", "l", "s", "e" >>

\* ---------------------------------------------------------------- inputs

\* Values of PORT the model draws from.
PortStrings ==
    { << "8", "0", "8", "0" >>,
      << "5", "0", "0", "0" >>,
      << "0" >>,
      << "6", "5", "5", "3", "5" >>,
      << "6", "5", "5", "3", "6" >>,
      << " ", "8", "0", "8", "0", " " >>,
      << "8", "_", "0", "8", "0" >>,
      << "-", "1" >>,
      << "a", "b", "c" >>,
      << "8", "0", ".", "5" >>,
      << >> }

\* Values of FLASK_DEBUG the model draws from.
DebugStrings ==
    { << "t", "r", "u", "e" >>,
      << "T", "R", "U", "E" >>,
      << "T", "r", "u", "e" >>,
      << "t", "R", "u", "E" >>,
      << "1" >>,
      << "y", "e", "s" >>,
      << >>,
      << " ", "t", "r", "u", "e" >>,
      << "f", "a", "l", "s", "e" >> }

\* A host the environment may name (FLASK_RUN_HOST); app.py never reads it.
str_loopback == << "1", "2", "7", ".", "0", ".", "0", ".", "1" >>

Unset == [ set |-> FALSE, val |-> << >> ]

SetTo(s) == [ set |-> TRUE, val |-> s ]

\* Ports that other processes may hold when the process starts.
BusyCandidates == { 5000, 8080 }

\* Ports the kernel hands out for a bind to port 0.
EphemeralPorts == { 32768, 60999 }

TemplateStates == { "ok", "corrupt", "missing" }

Methods == { "GET", "HEAD", "POST", "OPTIONS" }

PathConverter == "<path:filename>"

\* "/", "/index.html", "/static/app.js"
Paths == { << >>, << "index.html" >>, << "static", "app.js" >> }

\* Whether the file a static path names exists is the file system's answer.
StaticOutcomes(path) ==
    IF path # << >> /\ path[1] = "static" THEN BOOLEAN ELSE { FALSE }

\* ---------------------------------------------------------------- app.py

DefaultPort == 5000

\* os.environ.get(name, default)
environ_get(e, name, default) ==
    IF e[name].set THEN [ tag |-> "str", v |-> e[name].val ] ELSE default

\* The guard taken for every importer.
IsMain_always(n) == TRUE

\* if __name__ == "__main__":
IsMain(n) == n = "__main__"

\* A parse failure swallowed, the default used instead.
ResolvePort_fallback(e) ==
    LET r == int(environ_get(e, "PORT", [ tag |-> "int", v |-> DefaultPort ]))
    IN  IF r.ok THEN r ELSE [ ok |-> TRUE, val |-> DefaultPort ]

\* The default of another development server.
ResolvePort_8000(e) ==
    int(environ_get(e, "PORT", [ tag |-> "int", v |-> 8000 ]))

\* The variable ignored.
ResolvePort_fixed(e) == [ ok |-> TRUE, val |-> DefaultPort ]

\* port = int(os.environ.get("PORT", 5000))
ResolvePort(e) ==
    int(environ_get(e, "PORT", [ tag |-> "int", v |-> DefaultPort ]))

\* debug = os.environ.get("FLASK_DEBUG", "false").lower() == "true"
ResolveDebug(e) ==
    lower(environ_get(e, "FLASK_DEBUG", [ tag |-> "str", v |-> str_false ]).v) = str_true

\* The host taken from the environment when it names one.
RunHost_env(e) ==
    IF e["FLASK_RUN_HOST"].set THEN "127.0.0.1" ELSE "0.0.0.0"

\* host="0.0.0.0"
RunHost(e) == "0.0.0.0"

\* The rule of @app.route("/") and the endpoint it names.
index_rule == [ rule |-> << >>, endpoint |-> "index",
                methods |-> { "GET", "HEAD", "OPTIONS" } ]

\* The rule Flask(__name__) adds for the static folder.
static_rule == [ rule |-> << "static", PathConverter >>, endpoint |-> "static",
                 methods |-> { "GET", "HEAD", "OPTIONS" } ]

\* The route registered for every path.
LoadedUrlMap_catchall ==
    { static_rule, [ index_rule EXCEPT !.rule = << PathConverter >> ] }

\* app.url_map once lines 4-9 have run.
LoadedUrlMap == { static_rule, index_rule }

\* ---------------------------------------------------------------- app.run

MaxPort == 2 ^ 16 - 1

\* A bind that moves on to the next port when the port is taken.
app_run_retry(h, p, inUse, e) ==
    IF p \in inUse
    THEN [ attempts |-> << [ host |-> h, port |-> p ], [ host |-> h, port |-> p + 1 ] >>,
           sock |-> << [ host |-> h, port |-> p + 1 ] >> ]
    ELSE [ attempts |-> << [ host |-> h, port |-> p ] >>,
           sock |-> << [ host |-> h, port |-> p ] >> ]

\* app.run(host=h, port=p): one bind of (h, p).  A port outside 0..65535 is
\* refused before the system call, a port another process holds by the
\* platform; port 0 is bound to the ephemeral port e the kernel picks.
app_run(h, p, inUse, e) ==
    [ attempts |-> << [ host |-> h, port |-> p ] >>,
      sock |-> IF p < 0 \/ p > MaxPort \/ p \in inUse THEN << >>
               ELSE IF p = 0 THEN << [ host |-> h, port |-> e ] >>
               ELSE << [ host |-> h, port |-> p ] >> ]

\* ---------------------------------------------------------------- requests

\* Whether a rule of the URL map matches a path.
Matches(rule, path) ==
    IF rule # << >> /\ rule[Len(rule)] = PathConverter
    THEN /\ Len(path) >= Len(rule)
         /\ \A i \in 1..(Len(rule) - 1) : path[i] = rule[i]
    ELSE path = rule

Rendered(v) == [ kind |-> "rendered", ver |-> v ]

Page(k) == [ kind |-> k, ver |-> 0 ]

\* The Jinja environment's get_template("index.html"): the compiled copy in
\* the cache is used when auto_reload (= app.debug) is off or the file has
\* not changed since; otherwise the file is loaded and compiled, which fails
\* when it is missing or does not compile.
get_template(t, c, d) ==
    IF c # << >> /\ (~d \/ (t.state = "ok" /\ t.ver = c[1]))
    THEN [ ok |-> TRUE, ver |-> c[1], cache |-> c ]
    ELSE IF t.state = "ok"
    THEN [ ok |-> TRUE, ver |-> t.ver, cache |-> << t.ver >> ]
    ELSE [ ok |-> FALSE, ver |-> 0, cache |-> c ]

\* A view that answers with plain text.
index_plain(t, c, d) ==
    [ status |-> 200, ctype |-> "text/plain", body |-> Page("text"), cache |-> c ]

\* A view whose exception is answered with an empty 200.
index_swallow(t, c, d) ==
    LET r == get_template(t, c, d)
    IN  IF r.ok
        THEN [ status |-> 200, ctype |-> "text/html", body |-> Rendered(r.ver),
               cache |-> r.cache ]
        ELSE [ status |-> 200, ctype |-> "text/html", body |-> Page("empty"),
               cache |-> r.cache ]

\* def index(): return render_template("index.html")
\* and the response the framework makes of it: the string as a 200 text/html
\* body, an exception as the 500 page.
index(t, c, d) ==
    LET r == get_template(t, c, d)
    IN  IF r.ok
        THEN [ status |-> 200, ctype |-> "text/html", body |-> Rendered(r.ver),
               cache |-> r.cache ]
        ELSE [ status |-> 500, ctype |-> "text/html", body |-> Page("error"),
               cache |-> r.cache ]

\* The static view: the file under the static folder, or 404.
send_static_file(exists, c) ==
    IF exists
    THEN [ status |-> 200, ctype |-> "guessed", body |-> Page("static"), cache |-> c ]
    ELSE [ status |-> 404, ctype |-> "text/html", body |-> Page("error"), cache |-> c ]

\* The application called with one request: the URL map picks the rule, the
\* rule's view runs for GET and HEAD (HEAD's body is dropped), OPTIONS is
\* answered by the framework, another method is 405, no rule is 404.
wsgi_app(rules, m, path, t, c, d, exists) ==
    LET hit == { r \in rules : Matches(r.rule, path) }
    IN  IF hit = { }
        THEN [ status |-> 404, ctype |-> "text/html", body |-> Page("error"),
               cache |-> c, view |-> "none" ]
        ELSE LET r == CHOOSE x \in hit : \A y \in hit : Len(y.rule) <= Len(x.rule)
             IN  IF m \notin r.methods
                 THEN [ status |-> 405, ctype |-> "text/html", body |-> Page("error"),
                        cache |-> c, view |-> "none" ]
                 ELSE IF m = "OPTIONS"
                 THEN [ status |-> 200, ctype |-> "text/html", body |-> Page("empty"),
                        cache |-> c, view |-> "none" ]
                 ELSE LET out == IF r.endpoint = "index" THEN index(t, c, d)
                                 ELSE send_static_file(exists, c)
                      IN  [ status |-> out.status, ctype |-> out.ctype,
                            body |-> IF m = "HEAD" THEN Page("empty") ELSE out.body,
                            cache |-> out.cache, view |-> r.endpoint ]

NoResponse ==
    [ method |-> "none", path |-> << >>, view |-> "none", status |-> 0,
      ctype |-> "none", body |-> Page("none"), tstate |-> "none", tver |-> 0,
      cached |-> << >> ]

Serving == pc \in { "listening", "wsgi" }

\* ---------------------------------------------------------------- behaviour

\* The state before the module runs, for given ranges of the environment.
InitWith(ports, debugs, hosts, busy) ==
    /\ env \in [ PORT : ports, FLASK_DEBUG : debugs, FLASK_RUN_HOST : hosts ]
    /\ portsInUse \in SUBSET busy
    /\ tmpl = [ state |-> "ok", ver |-> 1 ]
    /\ pc = "start"
    /\ module_name = "none"
    /\ url_map = { }
    /\ envReads = { }
    /\ port = << >>
    /\ debug = << >>
    /\ app_debug = FALSE
    /\ bindAttempts = << >>
    /\ sock = << >>
    /\ cache = << >>
    /\ resp = NoResponse
    /\ seen500 = FALSE

\* Every value of the environment the model draws from.
InitStartup ==
    InitWith({ Unset } \cup { SetTo(s) : s \in PortStrings },
             { Unset } \cup { SetTo(s) : s \in DebugStrings },
             { Unset, SetTo(str_loopback) },
             BusyCandidates)

\* The environments under which requests are explored: one of each outcome
\* of the startup that the serving of requests can tell apart.
Init ==
    InitWith({ Unset, SetTo(<< "8", "0", "8", "0" >>) },
             { Unset, SetTo(<< "T", "R", "U", "E" >>) },
             { Unset },
             { })

\* Lines 1-9: the module is executed, as the script or by an importer.
Load(n) ==
    /\ pc = "start"
    /\ module_name' = n
    /\ url_map' = LoadedUrlMap
    /\ pc' = "loaded"
    /\ UNCHANGED << env, portsInUse, tmpl, envReads, port, debug, app_debug,
                    bindAttempts, sock, cache, resp, seen500 >>

\* Line 14.  A ValueError ends the process.
ReadPort ==
    /\ pc = "loaded"
    /\ IsMain(module_name)
    /\ envReads' = envReads \cup { "PORT" }
    /\ LET r == ResolvePort(env)
       IN  IF r.ok
           THEN port' = << r.val >> /\ pc' = "port_read"
           ELSE port' = port /\ pc' = "failed"
    /\ UNCHANGED << env, portsInUse, tmpl, module_name, url_map, debug, app_debug,
                    bindAttempts, sock, cache, resp, seen500 >>

\* Line 15.
ReadDebug ==
    /\ pc = "port_read"
    /\ envReads' = envReads \cup { "FLASK_DEBUG" }
    /\ debug' = << ResolveDebug(env) >>
    /\ pc' = "debug_read"
    /\ UNCHANGED << env, portsInUse, tmpl, module_name, url_map, port, app_debug,
                    bindAttempts, sock, cache, resp, seen500 >>

\* Line 16: app.debug is set, the socket is bound, and the server serves
\* until the process ends; a failed bind ends the process.  With debug on
\* the reloader runs the script again in a child that serves on the socket
\* it inherits; the child resolves the same values from the same environment
\* and is not a process of its own here.
Run ==
    /\ pc = "debug_read"
    /\ app_debug' = debug[1]
    /\ \E e \in EphemeralPorts \ portsInUse :
          LET r == app_run(RunHost(env), port[1], portsInUse, e)
          IN  /\ bindAttempts' = bindAttempts \o r.attempts
              /\ sock' = r.sock
              /\ pc' = IF r.sock = << >> THEN "failed" ELSE "listening"
    /\ UNCHANGED << env, portsInUse, tmpl, module_name, url_map, envReads, port,
                    debug, cache, resp, seen500 >>

\* The importing server serves the application object; app.debug is what
\* the framework's own configuration made it.
WsgiServe ==
    /\ pc = "loaded"
    /\ ~IsMain(module_name)
    /\ pc' = "wsgi"
    /\ app_debug' \in BOOLEAN
    /\ UNCHANGED << env, portsInUse, tmpl, module_name, url_map, envReads, port,
                    debug, bindAttempts, sock, cache, resp, seen500 >>

\* One request served.
Request(m, path, exists) ==
    /\ Serving
    /\ LET r == wsgi_app(url_map, m, path, tmpl, cache, app_debug, exists)
       IN  /\ resp' = [ method |-> m, path |-> path, view |-> r.view,
                        status |-> r.status, ctype |-> r.ctype, body |-> r.body,
                        tstate |-> tmpl.state, tver |-> tmpl.ver, cached |-> cache ]
           /\ cache' = r.cache
           /\ seen500' = (seen500 \/ r.status = 500)
    /\ UNCHANGED << env, portsInUse, tmpl, pc, module_name, url_map, envReads, port,
                    debug, app_debug, bindAttempts, sock >>

\* The template file is edited, corrupted, removed or restored.
EditTemplate(st, v) ==
    /\ pc \notin { "failed" }
    /\ [ state |-> st, ver |-> v ] # tmpl
    /\ tmpl' = [ state |-> st, ver |-> v ]
    /\ UNCHANGED << env, portsInUse, pc, module_name, url_map, envReads, port, debug,
                    app_debug, bindAttempts, sock, cache, resp, seen500 >>

Next ==
    \/ \E n \in { "__main__", "app" } : Load(n)
    \/ ReadPort
    \/ ReadDebug
    \/ Run
    \/ WsgiServe
    \/ \E m \in Methods, path \in Paths :
          \E exists \in StaticOutcomes(path) : Request(m, path, exists)
    \/ \E st \in TemplateStates, v \in 1..MaxVer : EditTemplate(st, v)

Spec == Init /\ [][Next]_vars

\* The startup alone, over every environment: requests and edits of the
\* template leave every variable of the startup unchanged.
NextStartup ==
    \/ \E n \in { "__main__", "app" } : Load(n)
    \/ ReadPort
    \/ ReadDebug
    \/ Run
    \/ WsgiServe

SpecStartup == InitStartup /\ [][NextStartup]_vars

\* ---------------------------------------------------------------- claims

IsGetRoot == resp.method = "GET" /\ resp.path = << >>

\* The process ran as the script and app.run has returned or is serving.
RunDone == pc \in { "listening", "failed" } /\ port # << >>

\* A decimal integer string: digits only, at least one.
DecimalDigits(s) == s # << >> /\ \A i \in 1..Len(s) : IsDigit(s[i])

RECURSIVE DecimalValue(_)
DecimalValue(s) ==
    IF s = << >> THEN 0
    ELSE 10 * DecimalValue(SubSeq(s, 1, Len(s) - 1)) + DigitVal(s[Len(s)])

BoundPorts == { bindAttempts[i].port : i \in 1..Len(bindAttempts) }

C8_Original ==
    /\ resp.path # << >> => (resp.view # "index" /\ resp.body.kind # "rendered")
    /\ pc # "start" => { r.endpoint : r \in url_map } = { "index" }

\* C8, amended: app.py registers one route, /, for index; the application
\* also holds the static-file route /static/<path:filename> that the
\* framework adds; no request for a path other than / is answered by index
\* or with the rendered index.html, and the static view answers only paths
\* under /static/.
C8_Amended ==
    /\ resp.path # << >> => (resp.view # "index" /\ resp.body.kind # "rendered")
    /\ resp.view = "static" => (resp.path # << >> /\ resp.path[1] = "static")
    /\ pc # "start" =>
          /\ { r.endpoint : r \in url_map } = { "index", "static" }
          /\ \A r \in url_map :
                /\ r.endpoint = "index" => r.rule = << >>
                /\ r.endpoint = "static" => r.rule = << "static", PathConverter >>

C8_Witness ==
    /\ resp.method = "GET"
    /\ resp.path = << "index.html" >>
    /\ resp.status = 404
    /\ resp.view = "none"
    /\ cache # << >>

\* C6: an importer gets the application and its / route; PORT and
\* FLASK_DEBUG are not read, and nothing is bound.
C6_ImportOnly ==
    module_name = "app"
        => /\ envReads = { }
           /\ port = << >>
           /\ debug = << >>
           /\ bindAttempts = << >>
           /\ sock = << >>
           /\ pc \in { "loaded", "wsgi" }
           /\ \E r \in url_map : r.rule = << >> /\ r.endpoint = "index"

C6_Witness ==
    /\ module_name = "app"
    /\ pc = "wsgi"
    /\ env["PORT"].set
    /\ env["FLASK_DEBUG"].set
    /\ IsGetRoot
    /\ resp.view = "index"
    /\ resp.status = 200

C3_DefaultPort ==
    (RunDone /\ ~env["PORT"].set)
        => /\ port = << 5000 >>
           /\ BoundPorts = { 5000 }
           /\ 5000 \notin portsInUse => (pc = "listening" /\ sock[1].port = 5000)

C3_Witness ==
    /\ pc = "listening"
    /\ ~env["PORT"].set
    /\ sock = << [ host |-> "0.0.0.0", port |-> 5000 ] >>

\* The sixteen spellings of "true".
TrueSpellings ==
    { << a, b, c, d >> : a \in { "t", "T" }, b \in { "r", "R" },
                         c \in { "u", "U" }, d \in { "e", "E" } }

\* C4: run directly, debug is on exactly when FLASK_DEBUG is set to a
\* spelling of "true"; every other value, and the unset variable, leave it
\* off.
C4_DebugIff ==
    LET wanted == env["FLASK_DEBUG"].set /\ env["FLASK_DEBUG"].val \in TrueSpellings
    IN  /\ debug # << >> => debug[1] = wanted
        /\ pc = "listening" => app_debug = wanted

C4_Witness ==
    /\ pc = "listening"
    /\ app_debug
    /\ env["FLASK_DEBUG"] = SetTo(<< "t", "R", "u", "E" >>)

\* C7: every bind is to host 0.0.0.0, whatever PORT and FLASK_DEBUG are, and
\* no variable but those two is read.
C7_AllInterfaces ==
    /\ \A i \in 1..Len(bindAttempts) : bindAttempts[i].host = "0.0.0.0"
    /\ sock # << >> => sock[1].host = "0.0.0.0"
    /\ envReads \subseteq { "PORT", "FLASK_DEBUG" }

C7_Witness ==
    /\ pc = "listening"
    /\ env["FLASK_RUN_HOST"].set
    /\ env["PORT"].set
    /\ env["FLASK_DEBUG"].set
    /\ sock[1].host = "0.0.0.0"

\* The values of the claim that are no integer: "abc", "80.5", "".
C9_NonIntegers ==
    { << "a", "b", "c" >>, << "8", "0", ".", "5" >>, << >> }

\* C9: run directly with PORT set to a value that is no integer, the process
\* fails at the parse: nothing is bound, FLASK_DEBUG is not read, and 5000
\* is not used instead.
C9_ParseFailure ==
    /\ \A s \in PortStrings : int_str(s).ok <=> s \notin C9_NonIntegers
    /\ (module_name = "__main__" /\ env["PORT"].set
            /\ env["PORT"].val \in C9_NonIntegers)
        => /\ pc \in { "loaded", "failed" }
           /\ "FLASK_DEBUG" \notin envReads
           /\ port = << >>
           /\ debug = << >>
           /\ bindAttempts = << >>
           /\ sock = << >>

C9_Witness ==
    /\ pc = "failed"
    /\ env["PORT"] = SetTo(<< "8", "0", ".", "5" >>)
    /\ envReads = { "PORT" }
    /\ DefaultPort \notin portsInUse

\* C10: run directly with the resolved port held by another process, the
\* process fails to start after one bind of that port: no second attempt,
\* no other port, never listening.
C10_NoRetry ==
    (RunDone /\ port[1] \in portsInUse)
        => /\ pc = "failed"
           /\ sock = << >>
           /\ bindAttempts = << [ host |-> "0.0.0.0", port |-> port[1] ] >>

C10_Witness ==
    /\ pc = "failed"
    /\ port = << 8080 >>
    /\ 8080 \in portsInUse
    /\ Len(bindAttempts) = 1

====
